---- MODULE Spec2Model ----
(***************************************************************************)
(* Cardano Ouroboros node-to-node tip clients of octochain.                *)
(*                                                                         *)
(*   "cb"  : src/unnamed/part_002, connectAndFetchTip (callback client)    *)
(*   "run" : src/unnamed/part_001, run (async/await client with the        *)
(*           waiter-based MuxReader)                                       *)
(*   "lab" : src/lab/gemini-ouroboros-client.cjs (hand-built CBOR client)  *)
(*                                                                         *)
(* The three programs share one socket model.  A decoded CBOR value is a   *)
(* tagged record [t, v]; a payload that the CBOR decoder rejects is the    *)
(* value Bad.  The mux codec is modelled on bytes (MuxSpec).               *)
(***************************************************************************)
EXTENDS Integers, Sequences, FiniteSets, TLC

VARIABLES
    prog,       \* which program runs: "cb", "run", "lab"
    want,       \* part_001 WANT_PEER_SHARING (--peer-sharing 1)
    socket,     \* "connecting", "open", "ended" (our FIN sent), "destroyed"
    peerOpen,   \* the peer has neither closed nor reset the connection
    wire,       \* segments that reached the socket, in write order
    promise,    \* the top-level call: [st, val]
    timeout,    \* part_002 session timer: "armed", "cleared", "fired"
    state,      \* part_002 state {handshakeDone, negotiatedVersion, peers, gotTip}
    rn,         \* part_001 run(): program counter and locals
    waiters,    \* part_001 MuxReader.waiters (filters and timers)
    resume,     \* part_001 settled await whose continuation has not run yet
    lab,        \* lab client: printed tips, payload bytes written
    inChunk,    \* a 'data' callback is looping over the segments of its chunk
    exited,     \* process exit code, or "no"
    printed,    \* what the CLI printed on success
    nIn,        \* inbound segments parsed so far (bounded)
    hist,       \* history of the run, read by the properties only
    mx          \* mux codec experiment (MuxSpec)

vars == <<prog, want, socket, peerOpen, wire, promise, timeout, state, rn,
          waiters, resume, lab, inChunk, exited, printed, nIn, hist, mx>>

-----------------------------------------------------------------------------
(* Bounds *)

\* inbound segments one run may receive
MaxIn == 4
\* payload bytes of a mux round-trip experiment
MaxPayload == 2

-----------------------------------------------------------------------------
(* Decoded CBOR values (cbor-x / cbor Decoder output) *)

IntV(n)   == [t |-> "int",   v |-> n]
ArrV(s)   == [t |-> "arr",   v |-> s]
BytesV(b) == [t |-> "bytes", v |-> b]
TextV(s)  == [t |-> "text",  v |-> s]
BoolV(b)  == [t |-> "bool",  v |-> b]
MapV(m)   == [t |-> "map",   v |-> m]
Undef     == [t |-> "undef", v |-> 0]
\* a payload on which dec.decode throws
Bad       == [t |-> "bad",   v |-> 0]

isArray(x) == x.t = "arr"

\* JavaScript x[i] on a decoded array (0-based); out of range is undefined
Idx(x, i) == IF isArray(x) /\ i >= 0 /\ i < Len(x.v) THEN x.v[i + 1] ELSE Undef

\* JavaScript x.length of an array
Length(x) == IF isArray(x) THEN Len(x.v) ELSE 0

Pow2(n) == 2 ^ n

\* JavaScript x >>> 0 on a decoded value; the integers of the model lie in
\* 0 .. 2^31 - 1, where x >>> 0 is x; undefined >>> 0 is 0
ToUint32(x) == IF x.t = "int" THEN x.v ELSE 0

-----------------------------------------------------------------------------
(* Strings as sequences of one-character strings *)

HexDigits == <<"0","1","2","3","4","5","6","7","8","9","a","b","c","d","e","f">>

RECURSIVE toString(_, _)
\* Number.prototype.toString(radix) for a non-negative integer
toString(n, radix) ==
    IF n < radix THEN <<HexDigits[n + 1]>>
    ELSE toString(n \div radix, radix) \o <<HexDigits[(n % radix) + 1]>>

RECURSIVE padStart(_, _, _)
padStart(s, n, c) == IF Len(s) >= n THEN s ELSE padStart(<<c>> \o s, n, c)

RECURSIVE join(_, _)
\* Array.prototype.join over a sequence of strings
join(parts, sep) ==
    IF Len(parts) = 0 THEN <<>>
    ELSE IF Len(parts) = 1 THEN parts[1]
    ELSE parts[1] \o sep \o join(Tail(parts), sep)

RECURSIVE bytesToHex(_)
\* Buffer.prototype.toString('hex')
bytesToHex(b) ==
    IF Len(b) = 0 THEN <<>>
    ELSE padStart(toString(b[1], 16), 2, "0") \o bytesToHex(Tail(b))

-----------------------------------------------------------------------------
(* Mux codec on bytes.  A Buffer is a sequence of 0..255.  TLC's integers  *)
(* are 32 bits wide and signed, so an unsigned 32-bit word is held as its   *)
(* two 16-bit halves [hi, lo].                                              *)

Word(hi, lo) == [hi |-> hi, lo |-> lo]

\* Buffer.writeUInt32BE
u32be(w) == <<w.hi \div 256, w.hi % 256, w.lo \div 256, w.lo % 256>>

\* Buffer.readUInt32BE
readUInt32BE(buf, off) ==
    Word(buf[off + 1] * 256 + buf[off + 2], buf[off + 3] * 256 + buf[off + 4])

\* a header word that leaves the mode bit out
word2NoMode(modeBit, miniProtocolId, length) ==
    Word(miniProtocolId % Pow2(15), length % Pow2(16))

\* ((modeBit & 1) << 31) | ((miniProtocolId & 0x7fff) << 16) | (length & 0xffff), >>> 0
\* bit 31 and bits 30..16 make the high half, bits 15..0 the low half
word2(modeBit, miniProtocolId, length) ==
    Word((modeBit % 2) * Pow2(15) + (miniProtocolId % Pow2(15)), length % Pow2(16))

\* part_002 muxHeader; t is the word now32() returns
muxHeader(modeBit, miniProtocolId, length, t) ==
    u32be(t) \o u32be(word2(modeBit, miniProtocolId, length))

\* a packSegment without the check of the payload length
packSegmentNoLimit(miniProtocolId, modeBit, payloadBuf, t) ==
    [ok |-> TRUE,
     bytes |-> muxHeader(modeBit, miniProtocolId, Len(payloadBuf), t) \o payloadBuf]

\* part_002 packSegment: [ok, bytes]; ok = FALSE is the thrown Error
packSegment(miniProtocolId, modeBit, payloadBuf, t) ==
    IF Len(payloadBuf) > 65535 THEN [ok |-> FALSE, bytes |-> <<>>]
    ELSE [ok |-> TRUE,
          bytes |-> muxHeader(modeBit, miniProtocolId, Len(payloadBuf), t) \o payloadBuf]

\* part_001 muxFrame: transmissionTime = 0
muxFrame(miniProtocolId, mode, payload) ==
    IF miniProtocolId < 0 \/ miniProtocolId > 32767 THEN [ok |-> FALSE, bytes |-> <<>>]
    ELSE IF Len(payload) > 65535 THEN [ok |-> FALSE, bytes |-> <<>>]
    ELSE [ok |-> TRUE,
          bytes |-> u32be(Word(0, 0)) \o u32be(word2(mode, miniProtocolId, Len(payload)))
                        \o payload]

\* header fields read by both MuxReaders: (w >>> 31) & 1, (w >>> 16) & 0x7fff, w & 0xffff
hdrMode(w)   == (w.hi \div Pow2(15)) % 2
hdrMpid(w)   == w.hi % Pow2(15)
hdrLength(w) == w.lo % Pow2(16)

RECURSIVE pumpBytesEager(_, _)
\* a parsing loop that cuts a segment as soon as its header is buffered
pumpBytesEager(buf, segs) ==
    IF Len(buf) < 8 THEN [segs |-> segs, buf |-> buf]
    ELSE LET t   == readUInt32BE(buf, 0)
             w   == readUInt32BE(buf, 4)
             len == IF Len(buf) < 8 + hdrLength(w) THEN Len(buf) - 8 ELSE hdrLength(w)
         IN  pumpBytesEager(SubSeq(buf, 8 + len + 1, Len(buf)),
                            Append(segs, [t |-> t, modeBit |-> hdrMode(w),
                                          miniProtocolId |-> hdrMpid(w),
                                          payload |-> SubSeq(buf, 9, 8 + len)]))

RECURSIVE pumpBytes(_, _)
\* the parsing loop of MuxReader.push (part_002) and MuxReader._pump (part_001):
\* the segments cut from buf, appended to segs, and the bytes left in the buffer
pumpBytes(buf, segs) ==
    IF Len(buf) < 8 THEN [segs |-> segs, buf |-> buf]
    ELSE LET t   == readUInt32BE(buf, 0)
             w   == readUInt32BE(buf, 4)
             len == hdrLength(w)
         IN  IF Len(buf) < 8 + len THEN [segs |-> segs, buf |-> buf]
             ELSE pumpBytes(SubSeq(buf, 8 + len + 1, Len(buf)),
                            Append(segs, [t |-> t, modeBit |-> hdrMode(w),
                                          miniProtocolId |-> hdrMpid(w),
                                          payload |-> SubSeq(buf, 9, 8 + len)]))

\* MuxReader.push(chunk) on a reader whose buffer is buf
push(buf, chunk) == pumpBytes(buf \o chunk, <<>>)

-----------------------------------------------------------------------------
(* Peer addresses and tip rendering *)

\* an IPv4 rendering that starts from the least significant octet
ipv4FromWord32Reversed(w) ==
    join(<<toString(w % 256, 10), toString((w \div Pow2(8)) % 256, 10),
           toString((w \div Pow2(16)) % 256, 10), toString((w \div Pow2(24)) % 256, 10)>>,
         <<".">>)

\* part_002 ipv4FromWord32
ipv4FromWord32(w) ==
    join(<<toString((w \div Pow2(24)) % 256, 10), toString((w \div Pow2(16)) % 256, 10),
           toString((w \div Pow2(8)) % 256, 10),  toString(w % 256, 10)>>, <<".">>)

\* the IPv6 rendering shared by part_002 (lines 100-101) and part_001 (275-277):
\* a.slice(1, 5).map(x => (x >>> 0).toString(16).padStart(8, '0')).join(':')
ipv6FromWords(a) ==
    join([i \in 1..4 |-> padStart(toString(ToUint32(Idx(a, i)), 16), 8, "0")], <<":">>)

RECURSIVE parsePeerAddressesFrom(_, _)
parsePeerAddressesFrom(list, out) ==
    IF Len(list) = 0 THEN out
    ELSE LET a == Head(list)
             rest == Tail(list)
         IN  IF ~isArray(a) \/ Length(a) < 3 THEN parsePeerAddressesFrom(rest, out)
             ELSE IF Idx(a, 0) = IntV(0) /\ Length(a) = 3
             THEN parsePeerAddressesFrom(rest,
                      Append(out, [ip |-> ipv4FromWord32(ToUint32(Idx(a, 1))),
                                   port |-> ToUint32(Idx(a, 2))]))
             ELSE IF Idx(a, 0) = IntV(1) /\ Length(a) = 6
             THEN parsePeerAddressesFrom(rest,
                      Append(out, [ip |-> ipv6FromWords(a), port |-> ToUint32(Idx(a, 5))]))
             ELSE parsePeerAddressesFrom(rest, out)

\* `for (const a of peerAddresses || [])`: undefined iterates as [], an array
\* iterates its elements, a number is not iterable (TypeError)
iterable(x) == x.t \in {"arr", "undef"}

\* part_002 parsePeerAddresses, for an iterable argument
parsePeerAddresses(peerAddresses) ==
    parsePeerAddressesFrom(IF isArray(peerAddresses) THEN peerAddresses.v ELSE <<>>, <<>>)

\* part_001 run, lines 260-281: psObj[1].map(addr => ...)
mapPeer(addr) ==
    IF ~isArray(addr) THEN [raw |-> addr]
    ELSE IF Idx(addr, 0) = IntV(0)
    THEN [ip |-> ipv4FromWord32(ToUint32(Idx(addr, 1))), port |-> Idx(addr, 2)]
    ELSE IF Idx(addr, 0) = IntV(1)
    THEN [ip |-> ipv6FromWords(addr), port |-> Idx(addr, 5)]
    ELSE [raw |-> addr]

\* part_002 prettyTip
prettyTip(tip) ==
    IF isArray(tip) /\ Length(tip) = 3 /\ Idx(tip, 0).t = "int"
       /\ Idx(tip, 1).t = "bytes" /\ Idx(tip, 2).t = "int"
    THEN [t |-> "tip", v |-> [slot |-> Idx(tip, 0).v, hashHex |-> bytesToHex(Idx(tip, 1).v),
                              blockNo |-> Idx(tip, 2).v]]
    ELSE tip

-----------------------------------------------------------------------------
(* Mini-protocol numbers and the messages of the model *)

MP_HANDSHAKE == 0
MP_CHAINSYNC == 2
MP_PEERSHARE == 10
\* a mini-protocol number no client handles
MP_OTHER == 7

MAINNET_MAGIC == 764824073

\* mkVData(peerSharing, diffusionMode, query)
mkVData(peerSharing, diffusionMode, query) ==
    ArrV(<<IntV(MAINNET_MAGIC), BoolV(diffusionMode), IntV(IF peerSharing THEN 1 ELSE 0),
           BoolV(query)>>)

\* part_002 lines 131-136: propose = [0, versionTable]
proposeCb ==
    ArrV(<<IntV(0), MapV(<< <<IntV(15), mkVData(TRUE, FALSE, FALSE)>>,
                            <<IntV(14), mkVData(TRUE, FALSE, FALSE)>> >>)>>)

\* part_001 handshakePropose: versionTable is a plain object, whose keys are
\* strings, enumerated in ascending integer order
handshakePropose(wantPeerSharing) ==
    ArrV(<<IntV(0), MapV(<< <<TextV("14"), mkVData(wantPeerSharing, FALSE, FALSE)>>,
                            <<TextV("15"), mkVData(wantPeerSharing, FALSE, FALSE)>> >>)>>)

\* msgFindIntersect = [4, []]
findIntersect == ArrV(<<IntV(4), ArrV(<<>>)>>)
\* msgShareRequest = [0, n]
psReq(n) == ArrV(<<IntV(0), IntV(n)>>)

Seg(mp, mode, msg) == [miniProtocolId |-> mp, modeBit |-> mode, payload |-> msg]

Hash32 == [i \in 1..32 |-> 0]
TipA   == ArrV(<<IntV(142857142), BytesV(Hash32), IntV(9999999)>>)
TipB   == ArrV(<<ArrV(<<IntV(142857143), BytesV(Hash32)>>), IntV(10000000)>>)
PointA == ArrV(<<IntV(142857100), BytesV(Hash32)>>)

MsgAccept(n)    == ArrV(<<IntV(1), IntV(n), mkVData(TRUE, FALSE, FALSE)>>)
MsgRefuse       == ArrV(<<IntV(2), ArrV(<<TextV("VersionMismatch"),
                                          ArrV(<<IntV(15), IntV(14)>>)>>)>>)
MsgQueryReply   == ArrV(<<IntV(3), MapV(<< <<IntV(14), mkVData(FALSE, FALSE, TRUE)>> >>)>>)
MsgUnknownTag   == ArrV(<<IntV(9)>>)
MsgIntersectFound    == ArrV(<<IntV(5), PointA, TipA>>)
MsgIntersectNotFound == ArrV(<<IntV(6), TipB>>)
PeerV4 == ArrV(<<IntV(0), IntV(16909066), IntV(3001)>>)
PeerV6 == ArrV(<<IntV(1), IntV(536939960), IntV(0), IntV(0), IntV(1), IntV(3001)>>)
PeerV4b == ArrV(<<IntV(0), IntV(167772161), IntV(6000)>>)
MsgSharePeers  == ArrV(<<IntV(1), ArrV(<<PeerV4, PeerV6>>)>>)
MsgSharePeersB == ArrV(<<IntV(1), ArrV(<<IntV(5), PeerV4b>>)>>)

\* what the peer may send.  In responder mode (mode bit 1): on the handshake
\* undecodable bytes, a scalar, an empty array and the four kinds of reply; on
\* ChainSync and PeerSharing undecodable bytes, the replies, another tag and a
\* message of the wrong shape; on a mini-protocol nobody handles anything.  In
\* initiator mode (mode bit 0) the messages that would advance a mini-protocol.
SegsHandshake ==
    {Seg(MP_HANDSHAKE, 1, m) : m \in {Bad, IntV(7), ArrV(<<>>), MsgAccept(14), MsgAccept(15),
                                      MsgRefuse, MsgQueryReply, MsgUnknownTag}}
SegsChainSync ==
    {Seg(MP_CHAINSYNC, 1, m) : m \in {Bad, MsgIntersectFound, MsgIntersectNotFound,
                                      MsgUnknownTag}}
SegsPeerShare ==
    {Seg(MP_PEERSHARE, 1, m) : m \in {Bad, MsgSharePeers, MsgSharePeersB, MsgAccept(14),
                                      MsgUnknownTag}}
SegsOther == {Seg(MP_OTHER, 1, m) : m \in {Bad, MsgAccept(14)}}
SegsInitiator ==
    {Seg(MP_HANDSHAKE, 0, MsgAccept(14)), Seg(MP_HANDSHAKE, 0, MsgRefuse),
     Seg(MP_CHAINSYNC, 0, MsgIntersectNotFound), Seg(MP_CHAINSYNC, 0, MsgIntersectFound),
     Seg(MP_PEERSHARE, 0, MsgSharePeers)}

Segs == SegsHandshake \cup SegsChainSync \cup SegsPeerShare \cup SegsOther \cup SegsInitiator

-----------------------------------------------------------------------------
(* The socket (node:net), as the three programs use it *)

\* socket.write(frame) in environment c: bytes reach the peer only while the
\* socket is open; a write after socket.end() destroys the stream
\* (ERR_STREAM_WRITE_AFTER_END), a write after destroy() is discarded
write(c, seg) ==
    IF c.socket = "open" THEN [c EXCEPT !.wire = Append(@, seg)]
    ELSE IF c.socket = "ended" THEN [c EXCEPT !.socket = "destroyed"]
    ELSE c

Pending == [st |-> "pending", val |-> "none"]

\* new Error(message), with the value the message quotes
Err(message, about) == [e |-> message, of |-> about]

\* a resolve that overwrites an earlier settlement
resolveAlways(pr, v) == [st |-> "resolved", val |-> v]

\* Promise resolve / reject: the first settlement wins
resolve(pr, v) == IF pr.st = "pending" THEN [st |-> "resolved", val |-> v] ELSE pr
reject(pr, e)  == IF pr.st = "pending" THEN [st |-> "rejected", val |-> e] ELSE pr

-----------------------------------------------------------------------------
(* part_002: connectAndFetchTip.  The environment record c holds the          *)
(* variables one callback reads and writes.                                   *)

\* a kill that rejects and leaves the socket open
killNoDestroy(c, err) == [c EXCEPT !.promise = reject(@, err)]

\* a kill that destroys the socket and leaves the promise alone
killNoReject(c, err) == [c EXCEPT !.socket = "destroyed"]

\* const kill = (err) => { socket.destroy(); if (err) reject(err); }
kill(c, err) == [c EXCEPT !.socket = "destroyed", !.promise = reject(@, err)]

\* an accept handler that also disarms the session timer
cbAcceptClearsTimer(c, msg) ==
    LET c1 == [c EXCEPT !.state.handshakeDone = TRUE,
                        !.state.negotiatedVersion = Idx(msg, 1),
                        !.timeout = "cleared"]
        c2 == write(c1, Seg(MP_PEERSHARE, 0, psReq(8)))
    IN  write(c2, Seg(MP_CHAINSYNC, 0, findIntersect))

\* lines 173-189: MsgAcceptVersion
cbAccept(c, msg) ==
    LET c1 == [c EXCEPT !.state.handshakeDone = TRUE,
                        !.state.negotiatedVersion = Idx(msg, 1)]
        c2 == write(c1, Seg(MP_PEERSHARE, 0, psReq(8)))
    IN  write(c2, Seg(MP_CHAINSYNC, 0, findIntersect))

\* a handshake branch that takes every reply but MsgRefuse for an accept
cbHandshakeEager(c, msg) ==
    IF ~isArray(msg) \/ Length(msg) < 1 THEN c
    ELSE IF Idx(msg, 0) = IntV(2) THEN kill(c, Err("Handshake refused", msg))
    ELSE cbAccept(c, msg)

\* lines 166-197: the handshake branch
cbHandshake(c, msg) ==
    IF ~isArray(msg) \/ Length(msg) < 1 THEN c
    ELSE IF Idx(msg, 0) = IntV(1) THEN cbAccept(c, msg)
    ELSE IF Idx(msg, 0) = IntV(2) THEN kill(c, Err("Handshake refused", msg))
    ELSE c

\* lines 200-208: the PeerSharing branch; parsePeerAddresses throws a TypeError
\* on an argument that is not iterable, which nothing catches
cbPeerShare(c, msg) ==
    IF isArray(msg) /\ Idx(msg, 0) = IntV(1)
    THEN IF iterable(Idx(msg, 1))
         THEN [c EXCEPT !.state.peers = @ \o parsePeerAddresses(Idx(msg, 1))]
         ELSE [c EXCEPT !.crash = TRUE]
    ELSE c

\* line 215: const tip = (msg[0] === 5) ? msg[1] : msg[2]
cbTip(msg) == IF Idx(msg, 0) = IntV(5) THEN Idx(msg, 1) ELSE Idx(msg, 2)

\* lines 211-232: the ChainSync branch; peersDiscovered is state.peers itself,
\* read when the result is consumed (CbReturn)
cbChainSync(c, msg) ==
    IF isArray(msg) /\ (Idx(msg, 0) = IntV(5) \/ Idx(msg, 0) = IntV(6))
    THEN LET tip == cbTip(msg)
             c1 == [c EXCEPT !.state.gotTip = TRUE, !.timeout = "cleared",
                             !.socket = IF @ = "open" THEN "ended" ELSE @]
         IN  [c1 EXCEPT !.promise =
                  resolve(@, [negotiatedVersion |-> c.state.negotiatedVersion,
                              tip |-> prettyTip(tip), tipRaw |-> tip])]
    ELSE c

\* lines 161-233: the MuxReader callback, for one segment
cbOnSegment(c, seg) ==
    LET msg == seg.payload
    IN  IF msg = Bad
        THEN kill(c, Err("CBOR decode failed", IntV(seg.miniProtocolId)))
        ELSE IF seg.miniProtocolId = MP_HANDSHAKE THEN cbHandshake(c, msg)
        ELSE IF seg.miniProtocolId = MP_PEERSHARE THEN cbPeerShare(c, msg)
        ELSE IF seg.miniProtocolId = MP_CHAINSYNC THEN cbChainSync(c, msg)
        ELSE c

-----------------------------------------------------------------------------
(* History of a run.  Nothing below is read by the programs. *)

NoMsg == [t |-> "none", v |-> 0]

Requests == {MP_CHAINSYNC, MP_PEERSHARE}

isAccept(msg) == isArray(msg) /\ Idx(msg, 0) = IntV(1)
isRefuse(msg) == isArray(msg) /\ Idx(msg, 0) = IntV(2)
isIntersectReply(msg) == isArray(msg) /\ (Idx(msg, 0) = IntV(5) \/ Idx(msg, 0) = IntV(6))
isSharePeers(msg) == isArray(msg) /\ Idx(msg, 0) = IntV(1) /\ isArray(Idx(msg, 1))

hist0 ==
    [accepted    |-> FALSE,   \* a MsgAcceptVersion reached the handshake handler
     hsFirst     |-> NoMsg,   \* the first payload that reached the handshake handler
     hsPending   |-> FALSE,   \* the call was pending when it did
     refusedAt   |-> -1,      \* Len(wire) when the first MsgRefuse reached the handler
     refusedPend |-> FALSE,   \* the call was pending when it did
     last        |-> Seg(MP_OTHER, 0, NoMsg),  \* the last inbound segment
     handled     |-> FALSE,   \* it reached the handler of its mini-protocol
     outstanding |-> [mp \in Requests |-> FALSE],  \* a request awaits its reply
     dupReq      |-> FALSE,   \* a request was written while one was outstanding
     tipMsg      |-> NoMsg,   \* the first intersect reply that reached the handler
     tipOk       |-> FALSE,   \* it did so after an accept, with the call pending
     peersBefore |-> <<>>,    \* addresses of the MsgSharePeers handled before it
     csOther     |-> FALSE,   \* after an accept, with the call pending, a ChainSync
                              \* payload that decodes but is no intersect reply
                              \* reached the handler
     quiet       |-> FALSE]   \* accepted with the call pending, and the peer has
                              \* done nothing since

\* the history after inbound segment seg; handled says whether it reached the
\* handler of its mini-protocol, pend whether the call was pending; w0 and w1
\* are the wire before and after
Observe(h, seg, handled, pend, w0, w1) ==
    LET mp   == seg.miniProtocolId
        msg  == seg.payload
        hs   == handled /\ mp = MP_HANDSHAKE
        hs1  == hs /\ h.hsFirst = NoMsg
        ref1 == hs /\ isRefuse(msg) /\ h.refusedAt = -1
        out1 == [m \in Requests |-> IF handled /\ mp = m THEN FALSE ELSE h.outstanding[m]]
        new  == SubSeq(w1, Len(w0) + 1, Len(w1))
        dup  == \E i \in 1..Len(new) :
                    /\ new[i].miniProtocolId \in Requests
                    /\ \/ out1[new[i].miniProtocolId]
                       \/ \E j \in 1..(i - 1) : new[j].miniProtocolId = new[i].miniProtocolId
        tipNow == handled /\ mp = MP_CHAINSYNC /\ isIntersectReply(msg) /\ h.tipMsg = NoMsg
    IN  [accepted    |-> h.accepted \/ (hs /\ isAccept(msg)),
         hsFirst     |-> IF hs1 THEN msg ELSE h.hsFirst,
         hsPending   |-> IF hs1 THEN pend ELSE h.hsPending,
         refusedAt   |-> IF ref1 THEN Len(w0) ELSE h.refusedAt,
         refusedPend |-> IF ref1 THEN pend ELSE h.refusedPend,
         last        |-> seg,
         handled     |-> handled,
         outstanding |-> [m \in Requests |->
                             out1[m] \/ \E i \in 1..Len(new) : new[i].miniProtocolId = m],
         dupReq      |-> h.dupReq \/ dup,
         tipMsg      |-> IF tipNow THEN msg ELSE h.tipMsg,
         tipOk       |-> IF tipNow THEN h.accepted /\ pend ELSE h.tipOk,
         peersBefore |-> IF handled /\ mp = MP_PEERSHARE /\ isSharePeers(msg)
                            /\ h.tipMsg = NoMsg
                         THEN h.peersBefore \o parsePeerAddresses(Idx(msg, 1))
                         ELSE h.peersBefore,
         csOther     |-> \/ h.csOther
                         \/ /\ handled /\ mp = MP_CHAINSYNC /\ h.accepted /\ pend
                            /\ msg # Bad /\ ~isIntersectReply(msg),
         quiet       |-> hs /\ isAccept(msg) /\ ~h.accepted /\ pend]

\* the history after a callback that consumed no segment and wrote w1 - w0
ObserveWrites(h, w0, w1) ==
    LET new == SubSeq(w1, Len(w0) + 1, Len(w1))
    IN  [h EXCEPT !.outstanding =
                      [m \in Requests |->
                          @[m] \/ \E i \in 1..Len(new) : new[i].miniProtocolId = m],
                  !.dupReq = @ \/ \E i \in 1..Len(new) :
                                     /\ new[i].miniProtocolId \in Requests
                                     /\ h.outstanding[new[i].miniProtocolId]]

\* the variables a part_002 callback works on
cbEnv == [socket |-> socket, wire |-> wire, promise |-> promise, timeout |-> timeout,
          state |-> state, crash |-> FALSE]

\* lines 256-270: the .then / .catch reactions run once the current callback has
\* returned; .then prints the result (peersDiscovered.slice(0, 30)) and exits 0,
\* .catch exits 1; an uncaught exception ends the process at once
cbReactions(c) ==
    /\ exited' = IF c.crash THEN "uncaught"
                 ELSE IF c.promise.st = "resolved" THEN "0"
                 ELSE IF c.promise.st = "rejected" THEN "1" ELSE "no"
    /\ printed' = IF ~c.crash /\ c.promise.st = "resolved"
                  THEN [negotiatedVersion |-> c.promise.val.negotiatedVersion,
                        tip |-> c.promise.val.tip,
                        peersDiscovered |->
                            SubSeq(c.state.peers, 1,
                                   IF Len(c.state.peers) < 30 THEN Len(c.state.peers) ELSE 30),
                        peersDiscoveredCount |-> Len(c.state.peers)]
                  ELSE printed

cbInstall(c) ==
    /\ socket' = c.socket
    /\ wire' = c.wire
    /\ promise' = c.promise
    /\ timeout' = c.timeout
    /\ state' = c.state

\* lines 124-141: the connect callback sends MsgProposeVersions
CbConnect ==
    /\ prog = "cb" /\ exited = "no" /\ socket = "connecting"
    /\ LET c == write([cbEnv EXCEPT !.socket = "open"], Seg(MP_HANDSHAKE, 0, proposeCb))
       IN  cbInstall(c) /\ cbReactions(c)
    /\ hist' = hist
    /\ UNCHANGED <<prog, want, peerOpen, rn, waiters, resume, lab, inChunk, nIn, mx>>

\* line 235 and MuxReader.push: one segment of a 'data' chunk reaches the callback;
\* the loop goes on while the chunk holds further segments, also after kill()
CbData(seg) ==
    /\ prog = "cb" /\ exited = "no" /\ nIn < MaxIn
    /\ inChunk \/ (socket \in {"open", "ended"} /\ peerOpen)
    /\ \E c \in {cbOnSegment(cbEnv, seg)} :
           /\ cbInstall(c)
           /\ IF c.crash THEN cbReactions(c) /\ inChunk' = FALSE
              ELSE inChunk' = TRUE /\ UNCHANGED <<exited, printed>>
           /\ hist' = Observe(hist, seg, TRUE, promise.st = "pending", wire, c.wire)
    /\ nIn' = nIn + 1
    /\ UNCHANGED <<prog, want, peerOpen, rn, waiters, resume, lab, mx>>

\* the 'data' callback returns; promise reactions run
CbReturn ==
    /\ prog = "cb" /\ exited = "no" /\ inChunk
    /\ inChunk' = FALSE
    /\ cbReactions(cbEnv)
    /\ UNCHANGED <<prog, want, socket, peerOpen, wire, promise, timeout, state, rn,
                   waiters, resume, lab, nIn, hist, mx>>

\* lines 157-159: the 15 s timer fires
CbTimeout ==
    /\ prog = "cb" /\ exited = "no" /\ ~inChunk /\ timeout = "armed"
    /\ LET c == kill([cbEnv EXCEPT !.timeout = "fired"],
                     Err("Timeout waiting for handshake/tip", Undef))
       IN  cbInstall(c) /\ cbReactions(c)
    /\ UNCHANGED <<prog, want, peerOpen, rn, waiters, resume, lab, inChunk, nIn, hist, mx>>

\* line 236: socket.on('error')
CbError ==
    /\ prog = "cb" /\ exited = "no" /\ ~inChunk /\ socket # "destroyed"
    /\ LET c == kill(cbEnv, Err("socket error", Undef))
       IN  cbInstall(c) /\ cbReactions(c)
    /\ peerOpen' = FALSE
    /\ hist' = [hist EXCEPT !.quiet = FALSE]
    /\ UNCHANGED <<prog, want, rn, waiters, resume, lab, inChunk, nIn, mx>>

\* lines 237-242: socket.on('end'), the peer has sent FIN
CbEnd ==
    /\ prog = "cb" /\ exited = "no" /\ ~inChunk /\ socket \in {"open", "ended"} /\ peerOpen
    /\ LET c == IF ~state.gotTip
                THEN kill([cbEnv EXCEPT !.timeout = "cleared"],
                          Err("Socket ended before receiving tip.", Undef))
                ELSE cbEnv
       IN  cbInstall(c) /\ cbReactions(c)
    /\ peerOpen' = FALSE
    /\ hist' = [hist EXCEPT !.quiet = FALSE]
    /\ UNCHANGED <<prog, want, rn, waiters, resume, lab, inChunk, nIn, mx>>

-----------------------------------------------------------------------------
(* part_001: MuxReader with waiters, and run().  A waiter is its filter, the  *)
(* mini-protocol it reads in responder mode; its timer is armed while it is   *)
(* in the list.                                                               *)

\* the filters of run(): (mp, mode) => mp === X && mode === 1
filter(w, miniProtocolId, mode) == miniProtocolId = w.mp /\ mode = 1

\* this.waiters.findIndex(w => w.filter(miniProtocolId, mode)), 1-based, 0 if none
findIndex(ws, miniProtocolId, mode) ==
    IF \E i \in 1..Len(ws) : filter(ws[i], miniProtocolId, mode)
    THEN CHOOSE i \in 1..Len(ws) :
             /\ filter(ws[i], miniProtocolId, mode)
             /\ \A j \in 1..(i - 1) : ~filter(ws[j], miniProtocolId, mode)
    ELSE 0

\* this.waiters.splice(i, 1)
splice(ws, i) == SubSeq(ws, 1, i - 1) \o SubSeq(ws, i + 1, Len(ws))

\* lines 121-125, the timer of the waiter at position i of the list:
\*   const idx = this.waiters.findIndex((w) => w.resolve === resolve);
\*   if (idx >= 0) this.waiters.splice(idx, 1);
\* The entries of the list hold wrappers around resolve (lines 129-132), never
\* resolve itself, so idx is -1 and the list stays as it is
timerExpire(ws, i) == ws

\* decodeCbor: a decode failure yields the object {_decodeError, _hex}
decodeCbor(buf) == IF buf = Bad THEN [t |-> "obj", v |-> 0] ELSE buf

\* the variables run() and its MuxReader work on
runEnv == [socket |-> socket, wire |-> wire, promise |-> promise, rn |-> rn,
           waiters |-> waiters]

\* mux.readFrame(filter, TIMEOUT_MS): a waiter is queued and its timer armed
readFrame(c, mp) == [c EXCEPT !.waiters = Append(@, [mp |-> mp])]

\* a throw inside run(): the promise run() returned is rejected
throw(c, e) == [c EXCEPT !.promise = reject(@, e), !.rn.pc = "end"]

\* lines 288-297: print the result, socket.destroy(); run() returns
runOutput(c) ==
    [c EXCEPT !.promise = resolve(@, [tipDecoded |-> c.rn.tip,
                                      discoveredPeers |-> c.rn.peers,
                                      version |-> c.rn.negotiatedVersion,
                                      versionData |-> c.rn.negotiatedData]),
              !.socket = "destroyed", !.rn.pc = "end"]

\* lines 208-231: the handshake response has been read
runHandshake(c, frame) ==
    LET hsObj == decodeCbor(frame.payload)
    IN  IF ~isArray(hsObj) \/ Length(hsObj) < 1
        THEN throw(c, Err("bad handshake response", Undef))
        ELSE IF Idx(hsObj, 0) = IntV(2) THEN throw(c, Err("handshake refused", hsObj))
        ELSE IF Idx(hsObj, 0) # IntV(1)
        THEN throw(c, Err("unexpected handshake response tag", hsObj))
        ELSE LET c1 == [c EXCEPT !.rn.negotiatedVersion = Idx(hsObj, 1),
                                 !.rn.negotiatedData = Idx(hsObj, 2),
                                 !.rn.pc = "cs"]
                 c2 == write(c1, Seg(MP_CHAINSYNC, 0, findIntersect))
             IN  readFrame(c2, MP_CHAINSYNC)

\* lines 234-241
runTip(csObj) ==
    IF Idx(csObj, 0) = IntV(6) THEN Idx(csObj, 1) ELSE Idx(csObj, 2)

\* a ChainSync step that asks for peers whatever WANT_PEER_SHARING is
runChainSyncShares(c, frame) ==
    LET csObj == decodeCbor(frame.payload)
    IN  IF isArray(csObj) /\ (Idx(csObj, 0) = IntV(6) \/ Idx(csObj, 0) = IntV(5))
        THEN LET c1 == [c EXCEPT !.rn.tip = runTip(csObj), !.rn.peers = <<>>]
             IN  readFrame(write([c1 EXCEPT !.rn.pc = "ps"],
                                 Seg(MP_PEERSHARE, 0, psReq(25))),
                           MP_PEERSHARE)
        ELSE throw(c, Err("unexpected ChainSync response", csObj))

\* lines 232-256: the ChainSync response has been read
runChainSync(c, frame) ==
    LET csObj == decodeCbor(frame.payload)
    IN  IF isArray(csObj) /\ (Idx(csObj, 0) = IntV(6) \/ Idx(csObj, 0) = IntV(5))
        THEN LET c1 == [c EXCEPT !.rn.tip = runTip(csObj), !.rn.peers = <<>>]
             IN  IF want
                 THEN readFrame(write([c1 EXCEPT !.rn.pc = "ps"],
                                      Seg(MP_PEERSHARE, 0, psReq(25))),
                                MP_PEERSHARE)
                 ELSE runOutput(c1)
        ELSE throw(c, Err("unexpected ChainSync response", csObj))

\* lines 257-286: the PeerSharing response has been read
runPeerShare(c, frame) ==
    LET psObj == decodeCbor(frame.payload)
    IN  IF isArray(psObj) /\ Idx(psObj, 0) = IntV(1) /\ isArray(Idx(psObj, 1))
        THEN runOutput([c EXCEPT !.rn.peers =
                            [i \in 1..Length(Idx(psObj, 1)) |-> mapPeer(Idx(psObj, 1).v[i])]])
        ELSE runOutput(c)

\* the continuation of run() after the await it is suspended at has settled:
\* r.t = "ok" carries the frame, r.t = "err" the rejection
runContinue(c, r) ==
    IF c.rn.pc = "hs"
    THEN IF r.t = "ok" THEN runHandshake(c, r.v) ELSE throw(c, r.v)
    ELSE IF c.rn.pc = "cs"
    THEN IF r.t = "ok" THEN runChainSync(c, r.v) ELSE throw(c, r.v)
    ELSE IF c.rn.pc = "ps"
    THEN IF r.t = "ok" THEN runPeerShare(c, r.v) ELSE runOutput(c)
    ELSE c

\* lines 300-303: a rejected run() ends the process with exit code 1; after a
\* completed run() nothing keeps the process alive
runReactions(c) ==
    /\ exited' = IF c.promise.st = "resolved" THEN "0"
                 ELSE IF c.promise.st = "rejected" THEN "1" ELSE "no"
    /\ printed' = IF c.promise.st = "resolved" THEN c.promise.val ELSE printed

runInstall(c) ==
    /\ socket' = c.socket
    /\ wire' = c.wire
    /\ promise' = c.promise
    /\ rn' = c.rn
    /\ waiters' = c.waiters

\* lines 185-207: connected; the proposal is written and the first read starts
RunConnect ==
    /\ prog = "run" /\ exited = "no" /\ socket = "connecting"
    /\ LET c1 == write([runEnv EXCEPT !.socket = "open", !.rn.pc = "hs"],
                       Seg(MP_HANDSHAKE, 0, handshakePropose(want)))
           c  == readFrame(c1, MP_HANDSHAKE)
       IN  runInstall(c) /\ runReactions(c)
    /\ UNCHANGED <<prog, want, peerOpen, timeout, state, resume, lab, inChunk, nIn, hist, mx>>

\* lines 187-197: the connect timer fires, or the socket reports an error
RunConnectFail ==
    /\ prog = "run" /\ exited = "no" /\ socket = "connecting"
    /\ \E e \in {"connect timeout", "socket error"} :
           LET c == throw(runEnv, Err(e, Undef))
           IN  runInstall(c) /\ runReactions(c)
    /\ UNCHANGED <<prog, want, peerOpen, timeout, state, resume, lab, inChunk, nIn, hist, mx>>

\* lines 80-83 and _pump: one segment of a 'data' chunk; the first waiter whose
\* filter accepts it is resolved, otherwise the segment is dropped.  The
\* continuation of run() runs only when the 'data' callback has returned.
RunData(seg) ==
    /\ prog = "run" /\ exited = "no" /\ nIn < MaxIn
    /\ socket = "open" /\ peerOpen
    /\ inChunk \/ resume = NoMsg
    /\ LET waiterIndex == findIndex(waiters, seg.miniProtocolId, seg.modeBit)
       IN  /\ IF waiterIndex > 0
              THEN /\ waiters' = splice(waiters, waiterIndex)
                   /\ resume' = [t |-> "ok", v |-> seg]
              ELSE UNCHANGED <<waiters, resume>>
           /\ hist' = Observe(hist, seg, waiterIndex > 0, promise.st = "pending", wire, wire)
    /\ inChunk' = TRUE
    /\ nIn' = nIn + 1
    /\ UNCHANGED <<prog, want, socket, peerOpen, wire, promise, timeout, state, rn, lab,
                   exited, printed, mx>>

\* the 'data' callback returns; run() continues if its await was resolved
RunReturn ==
    /\ prog = "run" /\ exited = "no" /\ inChunk
    /\ inChunk' = FALSE
    /\ resume' = NoMsg
    /\ \E c \in {IF resume = NoMsg THEN runEnv ELSE runContinue(runEnv, resume)} :
           /\ runInstall(c) /\ runReactions(c)
           /\ hist' = ObserveWrites(hist, wire, c.wire)
    /\ UNCHANGED <<prog, want, peerOpen, timeout, state, lab, nIn, mx>>

\* lines 121-125: the timer of a waiter fires; run() ends or, for the
\* PeerSharing read, prints its result, so no timer fires twice
RunTimer ==
    /\ prog = "run" /\ exited = "no" /\ ~inChunk
    /\ \E i \in 1..Len(waiters) :
           \E c \in {runContinue([runEnv EXCEPT !.waiters = timerExpire(@, i)],
                               [t |-> "err",
                                v |-> Err("timeout waiting for mux frame", Undef)])} :
               /\ runInstall(c) /\ runReactions(c)
               /\ hist' = ObserveWrites(hist, wire, c.wire)
    /\ UNCHANGED <<prog, want, peerOpen, timeout, state, resume, lab, inChunk, nIn, mx>>

\* lines 84-90: 'close' or 'error'; _failAll rejects every waiter
RunClose ==
    /\ prog = "run" /\ exited = "no" /\ ~inChunk /\ socket = "open"
    /\ LET c0 == [runEnv EXCEPT !.socket = "destroyed", !.waiters = <<>>]
       IN  \E c \in {IF Len(waiters) > 0
                     THEN runContinue(c0, [t |-> "err", v |-> Err("socket closed", Undef)])
                     ELSE c0} :
               runInstall(c) /\ runReactions(c)
    /\ peerOpen' = FALSE
    /\ hist' = [hist EXCEPT !.quiet = FALSE]
    /\ UNCHANGED <<prog, want, timeout, state, resume, lab, inChunk, nIn, mx>>

-----------------------------------------------------------------------------
(* src/lab/gemini-ouroboros-client.cjs *)

\* cbor.decode on the definite-length items a handshake or ChainSync payload
\* is made of: one data item of b starting at index i, as [ok, next, v].
\* Unsigned integers (major type 0), arrays (4), maps (5), false and true; an
\* additional-information value of 31 (indefinite length) is not accepted
RECURSIVE cborItem(_, _)
RECURSIVE cborItems(_, _, _)
cborItem(b, i) ==
    IF i > Len(b) THEN [ok |-> FALSE, next |-> i, v |-> Bad]
    ELSE LET major == b[i] \div 32
             info  == b[i] % 32
             fail  == [ok |-> FALSE, next |-> i, v |-> Bad]
         IN  IF major = 0 /\ info < 24 THEN [ok |-> TRUE, next |-> i + 1, v |-> IntV(info)]
             ELSE IF major = 0 /\ info = 24 /\ i + 1 <= Len(b)
             THEN [ok |-> TRUE, next |-> i + 2, v |-> IntV(b[i + 1])]
             ELSE IF major = 0 /\ info = 25 /\ i + 2 <= Len(b)
             THEN [ok |-> TRUE, next |-> i + 3, v |-> IntV(b[i + 1] * 256 + b[i + 2])]
             ELSE IF major = 0 /\ info = 26 /\ i + 4 <= Len(b) /\ b[i + 1] < 128
             THEN [ok |-> TRUE, next |-> i + 5,
                   v |-> IntV(((b[i + 1] * 256 + b[i + 2]) * 256 + b[i + 3]) * 256 + b[i + 4])]
             ELSE IF major = 4 /\ info < 24
             THEN LET r == cborItems(b, i + 1, info)
                  IN  IF r.ok THEN [ok |-> TRUE, next |-> r.next, v |-> ArrV(r.vs)] ELSE fail
             ELSE IF major = 5 /\ info < 24
             THEN LET r == cborItems(b, i + 1, 2 * info)
                  IN  IF r.ok
                      THEN [ok |-> TRUE, next |-> r.next,
                            v |-> MapV([k \in 1..info |-> <<r.vs[2 * k - 1], r.vs[2 * k]>>])]
                      ELSE fail
             ELSE IF b[i] = 244 THEN [ok |-> TRUE, next |-> i + 1, v |-> BoolV(FALSE)]
             ELSE IF b[i] = 245 THEN [ok |-> TRUE, next |-> i + 1, v |-> BoolV(TRUE)]
             ELSE fail

\* n consecutive data items of b starting at index i, as [ok, next, vs]
cborItems(b, i, n) ==
    IF n = 0 THEN [ok |-> TRUE, next |-> i, vs |-> <<>>]
    ELSE LET r == cborItem(b, i)
         IN  IF ~r.ok THEN [ok |-> FALSE, next |-> i, vs |-> <<>>]
             ELSE LET rs == cborItems(b, r.next, n - 1)
                  IN  [ok |-> rs.ok, next |-> rs.next, vs |-> <<r.v>> \o rs.vs]

\* the value a CBOR decoder reads from the payload b: exactly one data item;
\* Bad when b is not one well-formed item
cborDecode(b) ==
    LET r == cborItem(b, 1)
    IN  IF r.ok /\ r.next = Len(b) + 1 THEN r.v ELSE Bad

\* createMuxFrame: ts = (Date.now() * 1000) & 0xFFFFFFFF is a signed 32-bit
\* value, and writeUInt32BE throws a RangeError on a negative one; protocolId
\* is written as a plain 16-bit field.  [ok, seg]; ok = FALSE is the throw.
\* The segment carries the payload bytes as the value a decoder reads from them
createMuxFrame(protocolId, payload, tsNegative) ==
    [ok |-> ~tsNegative,
     seg |-> Seg(protocolId % Pow2(15), (protocolId \div Pow2(15)) % 2, cborDecode(payload))]

\* 1A2D964A09: Int(764824073)
magicBytes == <<26, 45, 150, 74, 9>>

\* lines 26-30: 82 1A2D964A09 F5
v10Data == <<130>> \o magicBytes \o <<245>>

\* lines 34-40: 84 1A2D964A09 F5 00 F4
v13Data == <<132>> \o magicBytes \o <<245, 0, 244>>

\* a version map header with the indefinite-length marker
versionMapHeaderIndefinite == <<191>>

\* line 44: A2
versionMapHeader == <<162>>

\* lines 46-54
entryV10 == <<10>> \o v10Data
entryV13 == <<13>> \o v13Data

\* buildHandshakePayload: the bytes of
\* [0, {10: [magic, true], 13: [magic, true, 0, false]}]
buildHandshakePayload == <<130, 0>> \o versionMapHeader \o entryV10 \o entryV13

\* line 125: Buffer.from('820480', 'hex')
chainSyncPayload == <<130, 4, 128>>

\* the variables a lab callback works on; thrown marks an exception in flight
labEnv == [socket |-> socket, wire |-> wire, lab |-> lab, thrown |-> FALSE]

\* socket.write(createMuxFrame(protocolId, payload))
labWrite(c, protocolId, payload, tsNegative) ==
    LET f  == createMuxFrame(protocolId, payload, tsNegative)
        c1 == write(c, f.seg)
    IN  IF ~f.ok THEN [c EXCEPT !.thrown = TRUE]
        ELSE IF Len(c1.wire) > Len(c.wire) THEN [c1 EXCEPT !.lab.sent = Append(@, payload)]
        ELSE c1

\* lines 114-132
handleHandshake(c, payload, tsNegative) ==
    IF payload = Bad THEN [c EXCEPT !.thrown = TRUE]
    ELSE LET msgId == Idx(payload, 0)
         IN  IF msgId = IntV(1) THEN labWrite(c, MP_CHAINSYNC, chainSyncPayload, tsNegative)
             ELSE IF msgId = IntV(2) THEN [c EXCEPT !.socket = "destroyed"]
             ELSE c

\* line 141: const tip = decoded[decoded.length - 1]
labTip(decoded) == Idx(decoded, Length(decoded) - 1)

\* lines 142-149 complete only if tip and tip[0] can be destructured as arrays
\* and the hash has a toString that accepts 'hex'
labPrintable(tip) ==
    /\ isArray(tip) /\ isArray(Idx(tip, 0))
    /\ Idx(Idx(tip, 0), 1).t \notin {"undef", "int"}

\* lines 134-154
handleChainSync(c, payload) ==
    IF payload = Bad THEN [c EXCEPT !.thrown = TRUE]
    ELSE LET msgId == Idx(payload, 0)
             tip == labTip(payload)
         IN  IF msgId = IntV(5) \/ msgId = IntV(6)
             THEN IF labPrintable(tip)
                  THEN [c EXCEPT !.lab.tips = Append(@, [tip |-> tip,
                                                          slot |-> Idx(Idx(tip, 0), 0),
                                                          blockNo |-> Idx(tip, 1),
                                                          hash |-> Idx(Idx(tip, 0), 1)]),
                                 !.socket = "destroyed"]
                  ELSE [c EXCEPT !.thrown = TRUE]
             ELSE c

\* line 93: const protocolId = buffer.readUInt16BE(4), mode bit included
labProtocolId(seg) == seg.modeBit * Pow2(15) + seg.miniProtocolId

\* lines 101-110: dispatch of one segment; an exception destroys the socket
labOnSegment(c, seg, tsNegative) ==
    LET c1 == IF labProtocolId(seg) = MP_HANDSHAKE
              THEN handleHandshake(c, seg.payload, tsNegative)
              ELSE IF labProtocolId(seg) = MP_CHAINSYNC
              THEN handleChainSync(c, seg.payload)
              ELSE c
    IN  IF c1.thrown THEN [c1 EXCEPT !.socket = "destroyed", !.thrown = FALSE] ELSE c1

labInstall(c) ==
    /\ socket' = c.socket
    /\ wire' = c.wire
    /\ lab' = c.lab

\* lines 81-87: connected; an exception in this callback is not caught
LabConnect ==
    /\ prog = "lab" /\ exited = "no" /\ socket = "connecting"
    /\ \E tsNegative \in BOOLEAN :
           LET c == labWrite([labEnv EXCEPT !.socket = "open"], MP_HANDSHAKE,
                             buildHandshakePayload, tsNegative)
           IN  /\ labInstall(c)
               /\ exited' = IF c.thrown THEN "uncaught" ELSE "no"
    /\ UNCHANGED <<prog, want, peerOpen, promise, timeout, state, rn, waiters, resume,
                   inChunk, printed, nIn, hist, mx>>

\* lines 89-112: one segment of a 'data' chunk
LabData(seg) ==
    /\ prog = "lab" /\ exited = "no" /\ nIn < MaxIn
    /\ inChunk \/ (socket = "open" /\ peerOpen)
    /\ \E tsNegative \in BOOLEAN :
           \E c \in {labOnSegment(labEnv, seg, tsNegative)} :
               /\ labInstall(c)
               /\ hist' = Observe(hist, seg, labProtocolId(seg) \in {MP_HANDSHAKE, MP_CHAINSYNC},
                                  TRUE, wire, c.wire)
    /\ inChunk' = TRUE
    /\ nIn' = nIn + 1
    /\ UNCHANGED <<prog, want, peerOpen, promise, timeout, state, rn, waiters, resume,
                   exited, printed, mx>>

\* the 'data' callback returns; with the socket destroyed nothing keeps the
\* process alive
LabReturn ==
    /\ prog = "lab" /\ exited = "no" /\ inChunk
    /\ inChunk' = FALSE
    /\ exited' = IF socket = "destroyed" THEN "0" ELSE "no"
    /\ UNCHANGED <<prog, want, socket, peerOpen, wire, promise, timeout, state, rn, waiters,
                   resume, lab, printed, nIn, hist, mx>>

\* lines 156-157: the peer closes or resets the connection
LabClose ==
    /\ prog = "lab" /\ exited = "no" /\ ~inChunk /\ socket # "destroyed"
    /\ socket' = "destroyed"
    /\ peerOpen' = FALSE
    /\ exited' = "0"
    /\ hist' = [hist EXCEPT !.quiet = FALSE]
    /\ UNCHANGED <<prog, want, wire, promise, timeout, state, rn, waiters, resume, lab,
                   inChunk, printed, nIn, mx>>

-----------------------------------------------------------------------------
(* Mux codec experiment: a segment is encoded by packSegment or muxFrame and  *)
(* the frame is fed to a MuxReader with an empty buffer, in chunks.           *)

MuxMpids == {0, 2, 10, 255, 256, 16384, 32767}
MuxBytes == {0, 255}
MuxTimes == {Word(0, 0), Word(1, 2), Word(65535, 65535)}
\* the longest payload one segment can carry
BigPayload == [i \in 1..65535 |-> 0]

MuxPayloads ==
    UNION {[1..n -> MuxBytes] : n \in 0..MaxPayload} \cup {BigPayload}

MuxInit ==
    /\ mx \in [st : {"new"}, enc : {"packSegment", "muxFrame"}, miniProtocolId : MuxMpids,
               modeBit : {0, 1}, payload : MuxPayloads, t : MuxTimes,
               rest : {<<>>}, buf : {<<>>}, segs : {<<>>}]
    /\ mx.enc = "muxFrame" => mx.t = Word(0, 0)
    /\ Len(mx.payload) > MaxPayload => mx.miniProtocolId = 32767 /\ mx.t = Word(0, 0)
    /\ prog = "mux" /\ want = FALSE /\ socket = "connecting" /\ peerOpen = TRUE
    /\ wire = <<>> /\ promise = Pending /\ timeout = "armed"
    /\ state = NoMsg /\ rn = NoMsg /\ waiters = <<>> /\ resume = NoMsg /\ lab = NoMsg
    /\ inChunk = FALSE /\ exited = "no" /\ printed = NoMsg /\ nIn = 0 /\ hist = hist0

\* the client frames the segment; a rejected payload leaves nothing to send
MuxEncode ==
    /\ mx.st = "new"
    /\ LET f == IF mx.enc = "packSegment"
                THEN packSegment(mx.miniProtocolId, mx.modeBit, mx.payload, mx.t)
                ELSE muxFrame(mx.miniProtocolId, mx.modeBit, mx.payload)
       IN  mx' = [mx EXCEPT !.st = IF f.ok THEN "feeding" ELSE "rejected", !.rest = f.bytes]
    /\ UNCHANGED <<prog, want, socket, peerOpen, wire, promise, timeout, state, rn, waiters,
                   resume, lab, inChunk, exited, printed, nIn, hist>>

\* the sizes the next 'data' chunk may have: any size for a short frame; a long
\* frame arrives whole or in two chunks, cut inside its header, right after it,
\* or before its last byte
ChunkSizes(rest, buf) ==
    IF Len(rest) <= 8 + MaxPayload THEN 1..Len(rest)
    ELSE IF Len(buf) = 0 THEN {4, 8, 9, Len(rest) - 1, Len(rest)}
    ELSE {Len(rest)}

\* socket 'data': MuxReader.push(chunk) with the next k bytes of the frame
MuxFeed ==
    /\ mx.st = "feeding"
    /\ \E k \in ChunkSizes(mx.rest, mx.buf) :
           LET r == push(mx.buf, SubSeq(mx.rest, 1, k))
               rest == SubSeq(mx.rest, k + 1, Len(mx.rest))
           IN  mx' = [mx EXCEPT !.buf = r.buf, !.segs = @ \o r.segs, !.rest = rest,
                                !.st = IF Len(rest) = 0 THEN "fed" ELSE "feeding"]
    /\ UNCHANGED <<prog, want, socket, peerOpen, wire, promise, timeout, state, rn, waiters,
                   resume, lab, inChunk, exited, printed, nIn, hist>>

MuxNext == MuxEncode \/ MuxFeed

MuxSpec == MuxInit /\ [][MuxNext]_vars

-----------------------------------------------------------------------------
(* Encoder experiment: socket.write(packSegment(..)) / socket.write(muxFrame(..)) *)
(* on a payload of n zero bytes.  The state keeps the length of the payload and  *)
(* what the call produced, not the bytes.                                       *)

\* payload lengths: the short ones, the longest a segment can carry, one more
EncLengths == (0..MaxPayload) \cup {65535, 65536}

Zeros(n) == [i \in 1..n |-> 0]

EncInit ==
    /\ mx \in [st : {"new"}, enc : {"packSegment", "muxFrame"}, miniProtocolId : MuxMpids,
               modeBit : {0, 1}, n : EncLengths, t : MuxTimes,
               out : {[len |-> 0, declared |-> 0, carried |-> FALSE]}]
    /\ mx.enc = "muxFrame" => mx.t = Word(0, 0)
    /\ prog = "enc" /\ want = FALSE /\ socket = "open" /\ peerOpen = TRUE
    /\ wire = <<>> /\ promise = Pending /\ timeout = "armed"
    /\ state = NoMsg /\ rn = NoMsg /\ waiters = <<>> /\ resume = NoMsg /\ lab = NoMsg
    /\ inChunk = FALSE /\ exited = "no" /\ printed = NoMsg /\ nIn = 0 /\ hist = hist0

\* socket.write(frame): the encoder runs first, and when it throws socket.write
\* is not called.  out describes the bytes handed to the socket: how many, the
\* length field of their header, and whether the bytes after the header are
\* the payload
EncWrite ==
    /\ mx.st = "new"
    /\ \E f \in {IF mx.enc = "packSegment"
                  THEN packSegment(mx.miniProtocolId, mx.modeBit, Zeros(mx.n), mx.t)
                  ELSE muxFrame(mx.miniProtocolId, mx.modeBit, Zeros(mx.n))} :
           mx' = [mx EXCEPT
                    !.st = IF f.ok THEN "written" ELSE "thrown",
                    !.out = IF f.ok
                            THEN [len |-> Len(f.bytes),
                                  declared |-> hdrLength(readUInt32BE(f.bytes, 4)),
                                  carried |-> SubSeq(f.bytes, 9, Len(f.bytes)) = Zeros(mx.n)]
                            ELSE @]
    /\ UNCHANGED <<prog, want, socket, peerOpen, wire, promise, timeout, state, rn, waiters,
                   resume, lab, inChunk, exited, printed, nIn, hist>>

EncNext == EncWrite

EncSpec == EncInit /\ [][EncNext]_vars

-----------------------------------------------------------------------------
(* Decoder experiment: the frames of up to MaxSegs segments, one after the     *)
(* other, reach a MuxReader in chunks of any sizes.                            *)

\* segments of one inbound stream
MaxSegs == 2

StreamSegs ==
    [t : {Word(0, 0)}, modeBit : {0, 1}, miniProtocolId : {2, 32767},
     payload : {<<>>, <<7>>, <<255, 0>>}]

RECURSIVE StreamBytes(_, _)
\* the bytes of the segments i.. of a stream, as packSegment frames them
StreamBytes(stream, i) ==
    IF i > Len(stream) THEN <<>>
    ELSE packSegment(stream[i].miniProtocolId, stream[i].modeBit, stream[i].payload,
                     stream[i].t).bytes \o StreamBytes(stream, i + 1)

StreamInit ==
    /\ \E k \in 1..MaxSegs : \E stream \in [1..k -> StreamSegs] :
           mx = [st |-> "feeding", stream |-> stream, rest |-> StreamBytes(stream, 1),
                 buf |-> <<>>, segs |-> <<>>, fed |-> 0]
    /\ prog = "stream" /\ want = FALSE /\ socket = "open" /\ peerOpen = TRUE
    /\ wire = <<>> /\ promise = Pending /\ timeout = "armed"
    /\ state = NoMsg /\ rn = NoMsg /\ waiters = <<>> /\ resume = NoMsg /\ lab = NoMsg
    /\ inChunk = FALSE /\ exited = "no" /\ printed = NoMsg /\ nIn = 0 /\ hist = hist0

\* socket 'data': the next k bytes of the stream are pushed into the reader
StreamFeed ==
    /\ mx.st = "feeding"
    /\ \E k \in 1..Len(mx.rest) :
           \E r \in {push(mx.buf, SubSeq(mx.rest, 1, k))} :
               mx' = [mx EXCEPT !.buf = r.buf, !.segs = @ \o r.segs,
                                !.rest = SubSeq(mx.rest, k + 1, Len(mx.rest)),
                                !.fed = @ + k,
                                !.st = IF k = Len(mx.rest) THEN "fed" ELSE "feeding"]
    /\ UNCHANGED <<prog, want, socket, peerOpen, wire, promise, timeout, state, rn, waiters,
                   resume, lab, inChunk, exited, printed, nIn, hist>>

StreamNext == StreamFeed

StreamSpec == StreamInit /\ [][StreamNext]_vars

-----------------------------------------------------------------------------
(* Peer address experiment: a MsgSharePeers address list goes through        *)
(* part_002's parsePeerAddresses or through the map callback of part_001.    *)

\* entries of one address list
MaxPeers == 2

\* the entries a peer may put in the list: the two IPv4 and the IPv6 entry, a
\* scalar, arrays that are too short or too long for their tag, an unknown
\* tag, an IPv4 entry whose address is no number, and 127.0.0.255:65535
PeerEntries ==
    {PeerV4, PeerV4b, PeerV6, IntV(5),
     ArrV(<<IntV(0), IntV(1)>>),
     ArrV(<<IntV(0), IntV(1), IntV(2), IntV(3)>>),
     ArrV(<<IntV(1), IntV(1), IntV(2)>>),
     ArrV(<<IntV(2), IntV(1), IntV(2)>>),
     ArrV(<<IntV(0), TextV("x"), IntV(3001)>>),
     ArrV(<<IntV(0), IntV(2130706687), IntV(65535)>>)}

PeerInit ==
    /\ \E k \in 0..MaxPeers : \E list \in [1..k -> PeerEntries] :
           \E fn \in {"parsePeerAddresses", "map"} :
               mx = [st |-> "new", fn |-> fn, peerAddresses |-> ArrV(list), out |-> <<>>]
    /\ prog = "peers" /\ want = FALSE /\ socket = "open" /\ peerOpen = TRUE
    /\ wire = <<>> /\ promise = Pending /\ timeout = "armed"
    /\ state = NoMsg /\ rn = NoMsg /\ waiters = <<>> /\ resume = NoMsg /\ lab = NoMsg
    /\ inChunk = FALSE /\ exited = "no" /\ printed = NoMsg /\ nIn = 0 /\ hist = hist0

\* part_002 line 203: parsePeerAddresses(msg[1]); part_001 line 260:
\* psObj[1].map(...)
PeerParse ==
    /\ mx.st = "new"
    /\ mx' = [mx EXCEPT !.st = "parsed",
                        !.out = IF mx.fn = "parsePeerAddresses"
                                THEN parsePeerAddresses(mx.peerAddresses)
                                ELSE [i \in 1..Length(mx.peerAddresses) |->
                                          mapPeer(mx.peerAddresses.v[i])]]
    /\ UNCHANGED <<prog, want, socket, peerOpen, wire, promise, timeout, state, rn, waiters,
                   resume, lab, inChunk, exited, printed, nIn, hist>>

PeerNext == PeerParse

PeerSpec == PeerInit /\ [][PeerNext]_vars

-----------------------------------------------------------------------------
(* Reader experiment: the MuxReader of part_001 under a client that calls    *)
(* readFrame at any time, with the filters of run().  waiters is the list of *)
(* the reader; mx.calls holds, for every readFrame call, its promise and its *)
(* timer; mx.frames the segments parsed so far and the call each went to.    *)

\* readFrame calls of one experiment
MaxCalls == 2
\* segments parsed in one experiment
MaxFrames == 2

ReaderMpids == {MP_CHAINSYNC, MP_PEERSHARE}

\* wrappers that clear the timer and leave the promise unsettled
waiterClearOnly(call, st, by) == [call EXCEPT !.timer = "cleared"]

\* lines 129-136: the resolve / reject wrappers of a queued waiter:
\* clearTimeout(t), then the promise is settled unless it already is
waiterSettle(call, st, by) ==
    [call EXCEPT !.timer = IF @ = "armed" THEN "cleared" ELSE @,
                 !.st = IF @ = "pending" THEN st ELSE @,
                 !.by = IF call.st = "pending" THEN by ELSE @]

ReaderInit ==
    /\ prog = "reader" /\ socket = "open" /\ waiters = <<>>
    /\ mx = [calls |-> <<>>, frames |-> <<>>]
    /\ want = FALSE /\ peerOpen = TRUE /\ wire = <<>> /\ promise = Pending
    /\ timeout = "armed" /\ state = NoMsg /\ rn = NoMsg /\ resume = NoMsg /\ lab = NoMsg
    /\ inChunk = FALSE /\ exited = "no" /\ printed = NoMsg /\ nIn = 0 /\ hist = hist0

\* lines 119-141: readFrame queues a waiter and arms its timer; the _pump it
\* ends with finds no complete segment, 'data' having drained the buffer
ReaderReadFrame(mp) ==
    /\ prog = "reader" /\ Len(mx.calls) < MaxCalls
    /\ waiters' = Append(waiters, [mp |-> mp, id |-> Len(mx.calls) + 1])
    /\ mx' = [mx EXCEPT !.calls = Append(@, [mp |-> mp, st |-> "pending", timer |-> "armed",
                                              by |-> "none", at |-> Len(mx.frames)])]
    /\ UNCHANGED <<prog, want, socket, peerOpen, wire, promise, timeout, state, rn, resume,
                   lab, inChunk, exited, printed, nIn, hist>>

\* lines 80-83 and 92-117: a segment is parsed; the first waiter of the list
\* whose filter accepts it is spliced out and resolved, otherwise it is dropped
ReaderData(miniProtocolId, mode) ==
    /\ prog = "reader" /\ socket = "open" /\ Len(mx.frames) < MaxFrames
    /\ LET waiterIndex == findIndex(waiters, miniProtocolId, mode)
           id == IF waiterIndex > 0 THEN waiters[waiterIndex].id ELSE 0
       IN  /\ waiters' = IF waiterIndex > 0 THEN splice(waiters, waiterIndex) ELSE waiters
           /\ mx' = [mx EXCEPT
                        !.frames = Append(@, [miniProtocolId |-> miniProtocolId,
                                              modeBit |-> mode, to |-> id]),
                        !.calls = IF id > 0
                                  THEN [@ EXCEPT ![id] = waiterSettle(@, "resolved", "frame")]
                                  ELSE @]
    /\ UNCHANGED <<prog, want, socket, peerOpen, wire, promise, timeout, state, rn, resume,
                   lab, inChunk, exited, printed, nIn, hist>>

\* lines 121-125: the timer of call id fires: the list goes through
\* timerExpire and the promise is rejected
ReaderTimer(id) ==
    /\ prog = "reader" /\ id \in 1..Len(mx.calls) /\ mx.calls[id].timer = "armed"
    /\ waiters' = IF \E i \in 1..Len(waiters) : waiters[i].id = id
                  THEN timerExpire(waiters, CHOOSE i \in 1..Len(waiters) : waiters[i].id = id)
                  ELSE waiters
    /\ mx' = [mx EXCEPT !.calls[id].timer = "fired",
                        !.calls[id].st = IF @ = "pending" THEN "rejected" ELSE @,
                        !.calls[id].by = IF mx.calls[id].st = "pending" THEN "timeout" ELSE @]
    /\ UNCHANGED <<prog, want, socket, peerOpen, wire, promise, timeout, state, rn, resume,
                   lab, inChunk, exited, printed, nIn, hist>>

\* lines 84-90: 'close' or 'error': _failAll shifts every waiter off the list
\* and calls its reject
ReaderClose ==
    /\ prog = "reader" /\ socket = "open"
    /\ socket' = "destroyed"
    /\ waiters' = <<>>
    /\ mx' = [mx EXCEPT !.calls =
                 [id \in DOMAIN @ |->
                     IF \E i \in 1..Len(waiters) : waiters[i].id = id
                     THEN waiterSettle(@[id], "rejected", "closed")
                     ELSE @[id]]]
    /\ UNCHANGED <<prog, want, peerOpen, wire, promise, timeout, state, rn, resume,
                   lab, inChunk, exited, printed, nIn, hist>>

ReaderNext ==
    \/ \E mp \in ReaderMpids : ReaderReadFrame(mp)
    \/ \E mp \in ReaderMpids : \E mode \in {0, 1} : ReaderData(mp, mode)
    \/ \E id \in 1..MaxCalls : ReaderTimer(id)
    \/ ReaderClose

ReaderSpec == ReaderInit /\ [][ReaderNext]_vars

\* a timer that is armed fires unless it is cleared
ReaderFairSpec == ReaderSpec /\ \A id \in 1..MaxCalls : WF_vars(ReaderTimer(id))

-----------------------------------------------------------------------------

InitCommon ==
    /\ want \in BOOLEAN
    /\ socket = "connecting"
    /\ peerOpen = TRUE
    /\ wire = <<>>
    /\ promise = Pending
    /\ timeout = "armed"
    /\ state = [handshakeDone |-> FALSE, negotiatedVersion |-> Undef, peers |-> <<>>,
                gotTip |-> FALSE]
    /\ inChunk = FALSE
    /\ exited = "no"
    /\ printed = NoMsg
    /\ nIn = 0
    /\ hist = hist0
    /\ mx = NoMsg

Init ==
    /\ prog \in {"cb", "run", "lab"}
    /\ InitCommon
    /\ prog = "cb" => want
    /\ prog = "lab" => ~want
    /\ rn = [pc |-> "connect", negotiatedVersion |-> Undef, negotiatedData |-> Undef,
             tip |-> Undef, peers |-> <<>>]
    /\ waiters = <<>> /\ resume = NoMsg /\ lab = [tips |-> <<>>, sent |-> <<>>]

Next ==
    \/ CbConnect
    \/ \E seg \in Segs : CbData(seg)
    \/ CbReturn
    \/ CbTimeout
    \/ CbError
    \/ CbEnd
    \/ RunConnect
    \/ RunConnectFail
    \/ \E seg \in Segs : RunData(seg)
    \/ RunReturn
    \/ RunTimer
    \/ RunClose
    \/ LabConnect
    \/ \E seg \in Segs : LabData(seg)
    \/ LabReturn
    \/ LabClose

Spec == Init /\ [][Next]_vars

\* A session of one of the two clients that have a timer, with a peer that
\* accepts, refuses, replies, sends what nobody handles, or stays silent.
SegsSession ==
    {Seg(MP_HANDSHAKE, 1, MsgAccept(14)), Seg(MP_HANDSHAKE, 1, MsgRefuse),
     Seg(MP_HANDSHAKE, 1, MsgQueryReply), Seg(MP_HANDSHAKE, 0, MsgAccept(14)),
     Seg(MP_CHAINSYNC, 1, MsgIntersectNotFound), Seg(MP_CHAINSYNC, 1, MsgIntersectFound),
     Seg(MP_CHAINSYNC, 1, MsgUnknownTag),
     Seg(MP_PEERSHARE, 1, MsgSharePeers), Seg(MP_PEERSHARE, 1, Bad),
     Seg(MP_OTHER, 1, Bad)}

SessionInit == Init /\ prog \in {"cb", "run"}

SessionNext ==
    \/ CbConnect
    \/ \E seg \in SegsSession : CbData(seg)
    \/ CbReturn
    \/ CbTimeout
    \/ CbError
    \/ CbEnd
    \/ RunConnect
    \/ RunConnectFail
    \/ \E seg \in SegsSession : RunData(seg)
    \/ RunReturn
    \/ RunTimer
    \/ RunClose

\* Timers fire, and a callback that has started returns: Node's event loop runs
\* every callback to completion and fires every armed timer that is not cleared.
FairSpec ==
    /\ SessionInit /\ [][SessionNext]_vars
    /\ WF_vars(CbReturn) /\ WF_vars(CbTimeout)
    /\ WF_vars(RunReturn) /\ WF_vars(RunTimer)

-----------------------------------------------------------------------------
(* Properties *)

\* no callback is running and no continuation of run() is waiting to run
Idle == ~inChunk /\ resume = NoMsg

WireHas(mps) == \E i \in 1..Len(wire) : wire[i].miniProtocolId \in mps

isProposal(seg) ==
    /\ seg.miniProtocolId = MP_HANDSHAKE /\ seg.modeBit = 0
    /\ Idx(seg.payload, 0) = IntV(0)

\* C1: no client writes a segment on mini-protocol 2 or 10 before a
\* MsgAcceptVersion has reached its handshake handler; until then the wire holds
\* at most the handshake proposal.
C1_HandshakeFirst ==
    /\ WireHas(Requests) => hist.accepted
    /\ ~hist.accepted => /\ Len(wire) <= 1
                         /\ \A i \in 1..Len(wire) : isProposal(wire[i])

C1_Witness == hist.accepted /\ WireHas({MP_CHAINSYNC}) /\ nIn >= 2

\* C2 (as claimed): while no MsgAcceptVersion has been processed, an inbound
\* segment on mini-protocol 2 or 10 changes nothing: the call stays as it was,
\* no tip is delivered and no peer is added.
C2_Original ==
    [][ (/\ nIn' = nIn + 1
         /\ ~hist'.accepted
         /\ hist'.last.miniProtocolId \in Requests)
        => /\ promise' = promise
           /\ exited' = exited
           /\ state'.peers = state.peers
           /\ state'.gotTip = state.gotTip
           /\ lab' = lab
           /\ rn' = rn ]_vars

RefusalMessages == {"Handshake refused", "handshake refused"}

\* C3: when a MsgRefuse reaches the handshake handler while the call is pending,
\* the call is rejected with an error that carries the refusal, and from then on
\* no segment on mini-protocol 2 or 10 reaches the socket.
C3_RefuseFails ==
    /\ (prog \in {"cb", "run"} /\ hist.refusedAt >= 0 /\ hist.refusedPend /\ resume = NoMsg)
       => /\ promise.st = "rejected"
          /\ promise.val.e \in RefusalMessages
          /\ isRefuse(promise.val.of)
    /\ hist.refusedAt >= 0
       => \A i \in 1..Len(wire) : i > hist.refusedAt => wire[i].miniProtocolId \notin Requests

C3_Witness ==
    /\ hist.refusedAt >= 0 /\ hist.refusedPend /\ promise.st = "rejected"
    /\ hist.accepted /\ nIn >= 2 /\ hist.hsFirst = MsgRefuse

\* C4 (as claimed): no request is written on mini-protocol 2 or 10 while the
\* previous request on that mini-protocol is unanswered.
C4_Original == prog \in {"cb", "run"} => ~hist.dupReq

\* the last element of a reply array
LastOf(msg) == Idx(msg, Length(msg) - 1)

\* C5 (as claimed): the tip delivered for an intersect reply, received after
\* the handshake was accepted, is the last element of the reply array.
C5_Original ==
    /\ (prog = "cb" /\ hist.tipOk /\ promise.st = "resolved")
       => promise.val.tipRaw = LastOf(hist.tipMsg)
    /\ (prog = "run" /\ hist.tipOk /\ promise.st = "resolved")
       => promise.val.tipDecoded = LastOf(hist.tipMsg)
    /\ (prog = "lab" /\ hist.tipOk /\ Len(lab.tips) > 0 /\ labPrintable(LastOf(hist.tipMsg)))
       => lab.tips[1].tip = LastOf(hist.tipMsg)

\* the {ip, port} records of a printed result
NormPeer(p) ==
    IF "ip" \in DOMAIN p THEN [ip |-> p.ip, port |-> ToUint32(p.port)]
    ELSE [ip |-> <<"raw">>, port |-> 0]

PrintedPeers ==
    IF prog = "cb" THEN printed.peersDiscovered
    ELSE [i \in 1..Len(printed.discoveredPeers) |-> NormPeer(printed.discoveredPeers[i])]

\* C6 (as claimed): once the handshake is accepted and an intersect reply is
\* processed the call ends in success, and its peersDiscovered is exactly the
\* addresses of the MsgSharePeers processed before that reply, in arrival order.
C6_Original ==
    /\ (prog \in {"cb", "run"} /\ hist.tipOk /\ exited # "no") => exited = "0"
    /\ (prog \in {"cb", "run"} /\ hist.tipOk /\ exited = "0")
       => PrintedPeers = hist.peersBefore

TimeoutMessages == {"Timeout waiting for handshake/tip", "timeout waiting for mux frame"}

TimerArmed ==
    IF prog = "cb" THEN timeout = "armed"
    ELSE socket = "connecting" \/ Len(waiters) > 0

\* C7: while the call is pending and no callback is running, a timer that aborts
\* the session is armed; a call whose peer accepted and then stayed silent ends,
\* and ends with the timeout error.
C7_SessionTimeout ==
    /\ [](  (prog \in {"cb", "run"} /\ promise.st = "pending" /\ exited = "no" /\ Idle)
            => TimerArmed)
    /\ [](  (prog \in {"cb", "run"} /\ hist.quiet /\ promise.st # "pending")
            => (promise.st = "rejected" /\ promise.val.e \in TimeoutMessages))
    /\ (prog \in {"cb", "run"} /\ hist.quiet) ~> (~hist.quiet \/ promise.st # "pending")

C7_Witness ==
    /\ hist.quiet /\ promise.st = "rejected" /\ promise.val.e \in TimeoutMessages
    /\ exited = "1"

\* C8 (as claimed): nothing received on mini-protocol 10 makes the call fail.
C8_Original ==
    [][ (/\ nIn' = nIn + 1
         /\ hist'.last.miniProtocolId = MP_PEERSHARE
         /\ hist.accepted
         /\ promise.st = "pending")
        => (promise'.st # "rejected" /\ exited' # "uncaught") ]_vars

isUnexpectedHs(msg) ==
    isArray(msg) /\ Length(msg) >= 1 /\ Idx(msg, 0) # IntV(1) /\ Idx(msg, 0) # IntV(2)

\* C9 (as claimed): after a MsgQueryReply or a reply with an unknown tag the
\* handshake has failed for good: the call is rejected, no version is recorded,
\* and no request on mini-protocol 2 or 10 is sent, also if a MsgAcceptVersion
\* arrives later.
C9_Original ==
    (/\ prog \in {"cb", "run"} /\ isUnexpectedHs(hist.hsFirst) /\ hist.hsPending
     /\ Idle /\ exited # "uncaught")
    => /\ promise.st = "rejected"
       /\ state.negotiatedVersion = Undef /\ rn.negotiatedVersion = Undef
       /\ ~WireHas(Requests)

\* C10: the frame packSegment or muxFrame makes of (mini-protocol id, mode,
\* payload), fed to a MuxReader whose buffer is empty, comes out as exactly one
\* segment with the same three values, and the buffer is empty again.
C10_MuxRoundTrip ==
    mx.st = "fed"
    => /\ Len(mx.segs) = 1
       /\ mx.segs[1].miniProtocolId = mx.miniProtocolId
       /\ mx.segs[1].modeBit = mx.modeBit
       /\ mx.segs[1].payload = mx.payload
       /\ mx.buf = <<>>

C10_Witness ==
    /\ mx.st = "fed" /\ mx.modeBit = 1 /\ mx.miniProtocolId = 32767
    /\ Len(mx.payload) = MaxPayload /\ Len(mx.segs) = 1

\* C11: the encoder accepts a payload of 0..65535 bytes and the length field of
\* the header it writes is the payload length; it rejects a payload of 65536
\* bytes, and then not one byte is handed to the socket and the connection is
\* as it was; no frame carries or declares more than 65535 payload bytes.
C11_EncoderBounds ==
    /\ mx.st = "thrown" <=> (mx.st # "new" /\ mx.n > 65535)
    /\ mx.st = "thrown"
       => /\ mx.out.len = 0
          /\ socket = "open" /\ wire = <<>> /\ promise = Pending /\ hist = hist0
    /\ mx.st = "written"
       => /\ mx.out.len = 8 + mx.n
          /\ mx.out.declared = mx.n
          /\ mx.out.carried
    /\ mx.out.len <= 8 + 65535 /\ mx.out.declared <= 65535

C11_Witness == mx.st = "thrown" /\ mx.n = 65536 /\ mx.enc = "packSegment"
\* the number of bytes up to the end of segment i of the stream
StreamEnd(i) == Len(mx.rest) + mx.fed - Len(StreamBytes(mx.stream, i + 1))

\* the segments of the stream that lie wholly within the bytes fed so far
StreamComplete ==
    SubSeq(mx.stream, 1, Cardinality({i \in 1..Len(mx.stream) : StreamEnd(i) <= mx.fed}))

\* C12: whatever the chunks were, the reader has emitted exactly the segments
\* whose header and whole payload have arrived, in stream order, each with its
\* own mini-protocol id, mode and payload bytes, and holds back the bytes that
\* follow the last complete segment.
C12_ChunkingInvisible ==
    /\ mx.segs = StreamComplete
    /\ Len(mx.buf) = mx.fed - (IF Len(mx.segs) = 0 THEN 0 ELSE StreamEnd(Len(mx.segs)))
    /\ mx.st = "fed" => mx.segs = mx.stream /\ mx.buf = <<>>

C12_Witness ==
    /\ mx.st = "feeding" /\ Len(mx.stream) = 2 /\ Len(mx.segs) = 1
    /\ Len(mx.buf) = 9 /\ Len(mx.stream[2].payload) = 2 /\ Len(mx.stream[1].payload) = 1
\* the (mini-protocol, mode) pairs a client awaits replies on
Expected == {<<MP_HANDSHAKE, 1>>, <<MP_CHAINSYNC, 1>>, <<MP_PEERSHARE, 1>>}

\* C13 (as claimed): an inbound segment whose (mini-protocol id, mode) is not
\* among the expected ones changes no protocol state, causes no write and does
\* not fail the call, whatever its payload.
C13_Original ==
    [][ (/\ prog \in {"cb", "run"}
         /\ nIn' = nIn + 1
         /\ <<hist'.last.miniProtocolId, hist'.last.modeBit>> \notin Expected)
        => /\ promise' = promise
           /\ wire' = wire
           /\ socket' = socket
           /\ state' = state
           /\ rn' = rn /\ waiters' = waiters /\ resume' = resume ]_vars
\* the version table of a proposal: a sequence of <<version, version data>>
VersionTable(propose) == Idx(propose, 1).v

\* some version of the proposal on the wire carries peerSharing = 0
ProposesNoPeerSharing ==
    /\ Len(wire) >= 1 /\ isProposal(wire[1])
    /\ \E i \in 1..Len(VersionTable(wire[1].payload)) :
           Idx(VersionTable(wire[1].payload)[i][2], 2) = IntV(0)

\* C14: a client whose proposal carries peerSharing = 0 never writes a segment
\* on mini-protocol 10.
C14_NoShareRequest == ProposesNoPeerSharing => ~WireHas({MP_PEERSHARE})

C14_Witness ==
    /\ prog = "run" /\ ProposesNoPeerSharing /\ promise.st = "resolved"
    /\ WireHas({MP_CHAINSYNC})

\* the version table holds an entry for the integer version n whose data is
\* (networkMagic, false, 0 or 1, false)
CarriesVersion(table, n) ==
    \E i \in 1..Len(table) :
        /\ table[i][1] = IntV(n)
        /\ \E ps \in BOOLEAN : table[i][2] = mkVData(ps, FALSE, FALSE)

\* C15: the first segment a client writes after the TCP connect is
\* MsgProposeVersions = [0, versionTable] on mini-protocol 0 with mode bit 0,
\* and its version table holds versions 14 and 15, each carrying
\* (networkMagic, false, peerSharing ? 1 : 0, false).
C15_Original ==
    Len(wire) >= 1 =>
        /\ isProposal(wire[1])
        /\ Length(wire[1].payload) = 2
        /\ Idx(wire[1].payload, 1).t = "map"
        /\ CarriesVersion(VersionTable(wire[1].payload), 14)
        /\ CarriesVersion(VersionTable(wire[1].payload), 15)


FatalMessages ==
    {"Handshake refused", "CBOR decode failed", "socket error",
     "Socket ended before receiving tip.", "Timeout waiting for handshake/tip"}

\* this step is one of the fatal paths of connectAndFetchTip: a MsgRefuse or an
\* undecodable payload reaches the mux callback, the session timer fires, or
\* the socket reports an error or the peer's end
FatalStep ==
    \/ /\ nIn' = nIn + 1
       /\ \/ hist'.last.payload = Bad
          \/ hist'.last.miniProtocolId = MP_HANDSHAKE /\ isRefuse(hist'.last.payload)
    \/ timeout = "armed" /\ timeout' = "fired"
    \/ peerOpen /\ ~peerOpen'

\* C16: every fatal error of connectAndFetchTip that strikes while the call is
\* outstanding (handshake refused, CBOR decode failure, socket error, socket
\* end before a tip, session timeout) destroys the socket and rejects the
\* promise with that error, and a rejected promise is never resolved.
C16_FatalRejects ==
    [][ prog = "cb" =>
          /\ (promise.st = "pending" /\ FatalStep)
             => /\ socket' = "destroyed"
                /\ promise'.st = "rejected"
                /\ promise'.val.e \in FatalMessages
          /\ promise.st = "rejected" => promise' = promise ]_vars

C16_Witness ==
    /\ prog = "cb" /\ hist.accepted /\ socket = "destroyed" /\ ~peerOpen
    /\ promise.st = "rejected" /\ promise.val.e = "Socket ended before receiving tip."
    /\ exited = "1"


\* the initial bytes of indefinite-length arrays, maps, text and byte strings
IndefiniteMarkers == {159, 191, 127, 95}

\* b is exactly one data item whose containers are each followed by as many
\* items as their header declares
WellFormed(b) == cborDecode(b) # Bad

\* C17: the payloads the lab client builds by hand hold no indefinite-length
\* marker byte and every container header declares exactly the items that follow
\* it: the proposal is array 82 of two items whose second is map A2 of two
\* entries, the version data are arrays 82 and 84 of two and four items, and the
\* ChainSync payload is exactly 82 04 80.
C17_DefiniteLengths ==
    prog = "lab" =>
        /\ Len(lab.sent) = Len(wire)
        /\ \A i \in 1..Len(lab.sent) :
               LET b == lab.sent[i]
                   d == cborDecode(b)
               IN  /\ \A j \in 1..Len(b) : b[j] \notin IndefiniteMarkers
                   /\ WellFormed(b)
                   /\ wire[i].miniProtocolId = MP_HANDSHAKE
                      => /\ b[1] = 130 /\ Length(d) = 2
                         /\ b[3] = 162 /\ Idx(d, 1).t = "map" /\ Len(Idx(d, 1).v) = 2
                         /\ b[5] = 130 /\ Length(Idx(d, 1).v[1][2]) = 2
                         /\ b[13] = 132 /\ Length(Idx(d, 1).v[2][2]) = 4
                   /\ wire[i].miniProtocolId = MP_CHAINSYNC
                      => b = <<130, 4, 128>> /\ d = findIntersect

C17_Witness ==
    /\ prog = "lab" /\ Len(lab.sent) = 2
    /\ wire[1].miniProtocolId = MP_HANDSHAKE /\ wire[2].miniProtocolId = MP_CHAINSYNC


\* C18 (as claimed): once a MsgAcceptVersion has been processed, a later
\* segment on mini-protocol 0 is dropped: the negotiated version stays, nothing
\* is written, the socket stays as it is and the call is not failed.
C18_Original ==
    [][ (/\ prog \in {"cb", "run"}
         /\ hist.accepted
         /\ nIn' = nIn + 1
         /\ hist'.last.miniProtocolId = MP_HANDSHAKE)
        => /\ state'.negotiatedVersion = state.negotiatedVersion
           /\ rn'.negotiatedVersion = rn.negotiatedVersion
           /\ wire' = wire
           /\ socket' = socket
           /\ promise' = promise ]_vars


\* C19 (as claimed): once a ChainSync reply that is not an array with tag 5 or
\* 6 has been read, the call fails; in particular no intersect reply that
\* arrives later makes the call succeed.
C19_Original ==
    (prog \in {"cb", "run"} /\ hist.csOther)
        => /\ promise.st # "resolved"
           /\ exited # "0"


\* C20 (as claimed): a responder-mode segment is routed by the 15-bit
\* mini-protocol id: when the first segment a client receives is a
\* MsgAcceptVersion on mini-protocol 0 with the mode bit set, it reaches the
\* handshake handler, and once the client is idle again, with its socket still
\* open, MsgFindIntersect has been written on mini-protocol 2.
C20_Original ==
    (/\ nIn = 1
     /\ hist.last.miniProtocolId = MP_HANDSHAKE /\ hist.last.modeBit = 1
     /\ isAccept(hist.last.payload))
    => /\ hist.handled
       /\ (Idle /\ socket = "open")
          => \E i \in 1..Len(wire) :
                 /\ wire[i].miniProtocolId = MP_CHAINSYNC /\ wire[i].modeBit = 0
                 /\ wire[i].payload = findIntersect


\* C21 (as claimed): an inbound segment with mode bit 0 on mini-protocol 0, 2
\* or 10 is no reply: it does not advance the handshake (no version recorded,
\* no request written), delivers no tip and adds no peers.
C21_Original ==
    [][ (/\ prog \in {"cb", "run"}
         /\ nIn' = nIn + 1
         /\ hist'.last.modeBit = 0
         /\ hist'.last.miniProtocolId \in {MP_HANDSHAKE, MP_CHAINSYNC, MP_PEERSHARE})
        => /\ state'.handshakeDone = state.handshakeDone
           /\ state'.negotiatedVersion = state.negotiatedVersion
           /\ state'.gotTip = state.gotTip
           /\ state'.peers = state.peers
           /\ wire' = wire
           /\ (promise'.st = "resolved" => promise.st = "resolved")
           /\ rn' = rn /\ waiters' = waiters /\ resume' = resume ]_vars


\* the client is one that asks for peers
AsksForPeers == prog = "cb" \/ (prog = "run" /\ want)

\* C22 (as claimed): a client that asks for peers writes MsgShareRequest and
\* MsgFindIntersect together when the handshake is accepted: at no time is one
\* of the two requests on the wire without the other, so neither waits for a
\* reply on the other mini-protocol.
C22_Original ==
    AsksForPeers => (WireHas({MP_CHAINSYNC}) <=> WireHas({MP_PEERSHARE}))


\* the decimal digits
Digits == <<"0", "1", "2", "3", "4", "5", "6", "7", "8", "9">>

\* an octet in decimal
Dec(n) ==
    IF n < 10 THEN <<Digits[n + 1]>>
    ELSE IF n < 100 THEN <<Digits[(n \div 10) + 1], Digits[(n % 10) + 1]>>
    ELSE <<Digits[(n \div 100) + 1], Digits[((n \div 10) % 10) + 1], Digits[(n % 10) + 1]>>

\* a.b.c.d for a 32-bit address
Dotted(addr) ==
    Dec((addr \div 16777216) % 256) \o <<".">> \o Dec((addr \div 65536) % 256) \o <<".">>
        \o Dec((addr \div 256) % 256) \o <<".">> \o Dec(addr % 256)

IsV4Entry(a) == isArray(a) /\ Length(a) = 3 /\ Idx(a, 0) = IntV(0)
IsV6Entry(a) == isArray(a) /\ Length(a) = 6 /\ Idx(a, 0) = IntV(1)
IsPeerEntry(a) == IsV4Entry(a) \/ IsV6Entry(a)

\* the entries of the parsed list that yield a record, in input order
KeptEntries == SelectSeq(mx.peerAddresses.v, IsPeerEntry)

\* C23: parsePeerAddresses returns, in input order, one {ip, port} record for
\* each 3-element entry with tag 0, whose ip is a.b.c.d with the four octets of
\* the address from the most significant down; an entry that is neither an
\* IPv4 nor an IPv6 entry yields nothing; the output is never longer than the
\* input; and [0, 0x0102030A, 3001] gives 1.2.3.10 on port 3001.
C23_PeerRecords ==
    (mx.st = "parsed" /\ mx.fn = "parsePeerAddresses") =>
        /\ Len(mx.out) = Len(KeptEntries)
        /\ Len(mx.out) <= Length(mx.peerAddresses)
        /\ \A k \in 1..Len(KeptEntries) :
               /\ DOMAIN mx.out[k] = {"ip", "port"}
               /\ mx.out[k].port = ToUint32(LastOf(KeptEntries[k]))
               /\ IsV4Entry(KeptEntries[k])
                  => mx.out[k].ip = Dotted(ToUint32(Idx(KeptEntries[k], 1)))
               /\ KeptEntries[k] = ArrV(<<IntV(0), IntV(16909066), IntV(3001)>>)
                  => mx.out[k] = [ip |-> <<"1", ".", "2", ".", "3", ".", "1", "0">>,
                                  port |-> 3001]

C23_Witness ==
    /\ mx.st = "parsed" /\ mx.fn = "parsePeerAddresses"
    /\ Length(mx.peerAddresses) = 2 /\ mx.peerAddresses.v[1] = IntV(5)
    /\ mx.peerAddresses.v[2] = PeerV4 /\ Len(mx.out) = 1


\* the entries that stand behind the records of mx.out, index by index
RecordEntries ==
    IF mx.fn = "parsePeerAddresses" THEN KeptEntries ELSE mx.peerAddresses.v

\* the number of colon-separated groups of a string
Groups(str) == Cardinality({i \in 1..Len(str) : str[i] = ":"}) + 1

\* C24 (as claimed): the record of an IPv6 entry [1, w0, w1, w2, w3, port]
\* carries the given port and an ip string of 8 colon-separated groups of hex
\* digits.
C24_Original ==
    mx.st = "parsed" =>
        \A k \in 1..Len(RecordEntries) :
            IsV6Entry(RecordEntries[k])
            => /\ mx.out[k].port = (IF mx.fn = "parsePeerAddresses"
                                    THEN ToUint32(Idx(RecordEntries[k], 5))
                                    ELSE Idx(RecordEntries[k], 5))
               /\ Groups(mx.out[k].ip) = 8
               /\ \A i \in 1..Len(mx.out[k].ip) :
                      \/ mx.out[k].ip[i] = ":"
                      \/ \E d \in 1..16 : mx.out[k].ip[i] = HexDigits[d]


\* C25: connectAndFetchTip settles at most once.  Once the promise is settled
\* no step changes it: a resolved call keeps the tip of the first intersect
\* reply and the negotiated version it returned, whatever segment follows, and
\* a rejected call is not turned into a success by a later tip reply.  The
\* handlers of the timer, of 'error' and of 'end' (all kill(err)) leave a
\* settled promise as it is, and the exit code agrees with the settlement.
C25_SettlesOnce ==
    [][ prog = "cb" =>
          /\ promise.st # "pending"
             => /\ promise' = promise
                /\ \A e \in FatalMessages : kill(cbEnv, Err(e, Undef)).promise = promise
          /\ promise'.st = "resolved"
             => /\ isIntersectReply(hist'.tipMsg)
                /\ promise'.val.tipRaw = cbTip(hist'.tipMsg)
          /\ exited' = "0" => promise'.st = "resolved"
          /\ exited' = "1" => promise'.st = "rejected" ]_vars

\* resolved by one intersect reply, and a different one has been handled since
C25_Witness ==
    /\ prog = "cb" /\ promise.st = "resolved" /\ inChunk
    /\ hist.last.miniProtocolId = MP_CHAINSYNC /\ isIntersectReply(hist.last.payload)
    /\ hist.last.payload # hist.tipMsg
    /\ promise.val.tipRaw = cbTip(hist.tipMsg)
    /\ promise.val.tipRaw # cbTip(hist.last.payload)


\* the positions of the list whose call has timed out
TimedOutWaiters ==
    {i \in 1..Len(waiters) : mx.calls[waiters[i].id].by = "timeout"}

\* C26 (as claimed): a readFrame call that has timed out is no longer in the
\* waiters list, so no segment is consumed by a timed-out waiter.
C26_Original ==
    prog = "reader" =>
        /\ TimedOutWaiters = {}
        /\ \A k \in 1..Len(mx.frames) :
               mx.frames[k].to > 0 => mx.calls[mx.frames[k].to].by = "frame"


\* the positions of the list whose call is pending and whose filter accepts
\* a segment of mini-protocol mp and mode bit mode
PendingAccepting(mp, mode) ==
    {i \in 1..Len(waiters) :
        mx.calls[waiters[i].id].st = "pending" /\ filter(waiters[i], mp, mode)}

\* the calls this step resolves
NewlyResolved ==
    {id \in 1..Len(mx.calls) : mx.calls[id].st = "pending" /\ mx'.calls[id].st = "resolved"}

\* C27 (as claimed): a parsed segment resolves at most one waiter, the
\* earliest-registered pending waiter whose filter accepts it; the waiters whose
\* filter does not accept it stay queued in their order; a segment that no
\* pending waiter accepts resolves nothing, and no segment goes to a call
\* registered after it was parsed.
C27_Original ==
    [][ (prog = "reader" /\ Len(mx'.frames) = Len(mx.frames) + 1) =>
          LET f == mx'.frames[Len(mx'.frames)]
              P == PendingAccepting(f.miniProtocolId, f.modeBit)
              NotAccepting(w) == ~filter(w, f.miniProtocolId, f.modeBit)
          IN  /\ Cardinality(NewlyResolved) <= 1
              /\ P # {} => NewlyResolved
                             = {waiters[CHOOSE i \in P : \A j \in P : i <= j].id}
              /\ P = {} => NewlyResolved = {}
              /\ SelectSeq(waiters', NotAccepting) = SelectSeq(waiters, NotAccepting)
              /\ f.to > 0 => mx.calls[f.to].at < Len(mx'.frames) ]_vars


\* the state of the promise of call id, "none" before the call is made
CallState(id) == IF id <= Len(mx.calls) THEN mx.calls[id].st ELSE "none"

\* C28: every readFrame call settles, and settles once: it is resolved by a
\* segment its filter accepts, rejected by its timer, or rejected by the close
\* or error of the socket.  A pending call has its timer armed, a settled call
\* never changes, the close or error of the socket leaves the waiters list
\* empty with none of its calls pending, and every pending call is eventually
\* settled.
C28_ReadFrameSettles ==
    /\ [](prog = "reader" =>
            \A id \in 1..Len(mx.calls) :
                /\ mx.calls[id].st = "pending"
                   => /\ mx.calls[id].timer = "armed" /\ mx.calls[id].by = "none"
                      /\ \E i \in 1..Len(waiters) : waiters[i].id = id
                /\ mx.calls[id].st = "resolved"
                   => /\ mx.calls[id].by = "frame"
                      /\ \E k \in 1..Len(mx.frames) :
                             /\ mx.frames[k].to = id
                             /\ mx.frames[k].miniProtocolId = mx.calls[id].mp
                             /\ mx.frames[k].modeBit = 1
                /\ mx.calls[id].st = "rejected" => mx.calls[id].by \in {"timeout", "closed"})
    /\ [][prog = "reader" =>
            /\ \A id \in 1..Len(mx.calls) :
                   mx.calls[id].st # "pending"
                   => /\ mx'.calls[id].st = mx.calls[id].st
                      /\ mx'.calls[id].by = mx.calls[id].by
            /\ (socket = "open" /\ socket' = "destroyed")
               => /\ waiters' = <<>>
                  /\ \A id \in 1..Len(mx'.calls) : mx'.calls[id].st # "pending"]_vars
    /\ \A id \in 1..MaxCalls :
           (prog = "reader" /\ CallState(id) = "pending")
               ~> (CallState(id) \in {"resolved", "rejected"})

\* calls settled in each of the three ways, the last by the close of the socket
C28_Witness ==
    /\ prog = "reader" /\ socket = "destroyed" /\ waiters = <<>>
    /\ \E a, b \in 1..Len(mx.calls) :
           /\ mx.calls[a].by = "frame" /\ mx.calls[a].st = "resolved"
           /\ mx.calls[b].by = "closed" /\ mx.calls[b].st = "rejected"
    /\ \A id \in 1..Len(mx.calls) : mx.calls[id].st # "pending"

====
